---- MODULE Spec2Model ----
(***************************************************************************)
(* A model of app.py: the SSE Broadcaster with its /stream handlers, the   *)
(* reverse-geocoding cache (get_nearest_city) and the one-file-per-pin     *)
(* store behind /pins.                                                     *)
(*                                                                         *)
(* Threads are the request handlers of the WSGI server.  Every access to   *)
(* shared state (the Broadcaster's fields, location_cache, the pins        *)
(* directory) is a step of its own, so that TLC explores the interleavings *)
(* the lock and the file system allow.                                     *)
(***************************************************************************)
EXTENDS Integers, Sequences, FiniteSets, TLC

(***************************************************************************)
(* Bounds of the model.                                                    *)
(***************************************************************************)
\* broadcast calls explored by SpecBroadcast
MaxBroadcasts == 2
\* broadcast calls explored by SpecBuf beyond the capacity of the replay buffer
MaxOverflow == 2
\* HTTP requests to /pins explored by SpecPins and SpecSeq
MaxRequests == 3

(***************************************************************************)
(* Program constants.                                                      *)
(***************************************************************************)
\* deque(maxlen=100)
Capacity == 100
\* the shutdown signal a stream handler puts on its own queue (None)
NoneMsg == 0

\* /stream connections: each creates one fresh queue.Queue() and registers it once
Subs == {"s1", "s2"}
\* threads that call Broadcaster.broadcast
Prods == {"p1", "p2"}

VARIABLES
    clients,      \* Broadcaster.clients: the queues (named by their handler) registered
    messages,     \* Broadcaster.messages: the bounded replay deque
    lock,         \* Broadcaster.lock: "free" or the thread that holds it
    spc,          \* where each /stream handler stands
    queue,        \* each handler's client_queue
    ri,           \* register's position in `for msg in self.messages`
    connected,    \* whether the handler's HTTP client is still there
    faulty,       \* the queues whose put may raise
    ppc,          \* where each broadcast call stands
    pmsg,         \* the msg argument of each broadcast call
    todo,         \* clients the fan-out loop has not visited yet
    dead,         \* dead_clients of each broadcast call
    nextMsg,      \* number of broadcast calls made so far
    issued,       \* history: the messages in the order broadcast appended them
    hist,         \* history: everything ever put on each queue
    regAt,        \* history: Len(issued) when the queue was added to clients
    nrep,         \* history: number of messages register replayed to the queue
    registered,   \* history: register returned normally for the queue
    overlap,      \* history: broadcasts in flight at some moment of the queue's register
    location_cache, \* the module's location_cache dict: cache key -> place name
    files,        \* the pins directory: id -> content of <id>.json
    pool,         \* the worker threads that serve /pins requests
    th,           \* each worker's request and local variables
    wres,         \* the response each worker sent last
    nreq,         \* requests received so far (also the reading of the clock)
    nextId,       \* uuid4 values drawn so far
    lookups,      \* history: outbound geocoding requests made per cache key
    results,      \* history: values get_nearest_city returned per cache key
    created,      \* history: the pins returned by successful creates
    deleted,      \* history: ids whose file os.remove has removed
    raced         \* history: ids of pins whose create overlapped another create

bcVars == <<clients, messages, lock>>
subVars == <<spc, queue, ri, connected>>
prodVars == <<ppc, pmsg, todo, dead, nextMsg>>
histVars == <<issued, hist, regAt, nrep, registered>>
streamVars == <<clients, messages, lock, spc, queue, ri, connected, faulty,
                ppc, pmsg, todo, dead, nextMsg, issued, hist, regAt, nrep,
                registered, overlap>>
pinVars == <<location_cache, files, pool, th, wres, nreq, nextId,
             lookups, results, created, deleted, raced>>
vars == <<streamVars, pinVars>>

(***************************************************************************)
(* Helpers.                                                                *)
(***************************************************************************)
Range(s) == {s[i] : i \in 1..Len(s)}

Count(m, s) == Cardinality({i \in 1..Len(s) : s[i] = m})

\* the last n elements of s (all of s when it is shorter)
LastN(s, n) == IF Len(s) <= n THEN s ELSE SubSeq(s, Len(s) - n + 1, Len(s))

IsPrefix(s, t) == Len(s) <= Len(t) /\ s = SubSeq(t, 1, Len(s))

\* mutant of DequeAppend: a plain list, nothing is ever dropped
DequeAppendUnbounded(d, m) == Append(d, m)

\* deque(maxlen=Capacity).append: the oldest element is dropped when full
DequeAppend(d, m) == LastN(Append(d, m), Capacity)

\* mutant of CanAcquire: the critical section is entered without the lock
CanAcquireAlways(l) == TRUE

\* `with self.lock:` can be entered
CanAcquire(l) == l = "free"

\* mutant of ReplayMsg: the history is replayed newest first
ReplayMsgReversed(msgs, i) == msgs[Len(msgs) + 1 - i]

\* the i-th message register replays: `for msg in self.messages`
ReplayMsg(msgs, i) == msgs[i]

\* mutant of FanoutTargets: the fan-out loop misses one registered queue
FanoutTargetsSkipOne(cl) == IF cl = {} THEN {} ELSE cl \ {CHOOSE c \in cl : TRUE}

\* the queues broadcast iterates over: `for client_queue in self.clients`
FanoutTargets(cl) == cl

\* mutant of PurgeDead: the dead queues stay registered
PurgeDeadNone(cl, d) == cl

\* `for dead in dead_clients: self.clients.remove(dead)`
PurgeDead(cl, d) == cl \ d

\* outcomes of queue.put on the queue of handler s
PutOutcomes(s) == IF s \in faulty THEN {"ok", "raise"} ELSE {"ok"}

InRegister(s) == spc[s] \in {"reg_lock", "reg_add", "reg_replay"}
InBroadcast(p) == ppc[p] # "idle"

\* overlap is a history variable kept by an observer of the step A: it gains the
\* message of every broadcast call that is in flight while s is inside register
Tracked(A) ==
    /\ A
    /\ overlap' = [s \in Subs |->
                     IF InRegister(s)'
                     THEN overlap[s] \cup {pmsg'[p] : p \in {q \in Prods : InBroadcast(q)'}}
                     ELSE overlap[s]]
    /\ UNCHANGED pinVars

\* the same step with the observer switched off
Untracked(A) == A /\ UNCHANGED overlap /\ UNCHANGED pinVars

(***************************************************************************)
(* Initial state: Broadcaster.__init__, no connection, no call.            *)
(***************************************************************************)
InitBroadcaster ==
    /\ clients = {}
    /\ messages = <<>>
    /\ lock = "free"
    /\ spc = [s \in Subs |-> "idle"]
    /\ queue = [s \in Subs |-> <<>>]
    /\ ri = [s \in Subs |-> 0]
    /\ connected = [s \in Subs |-> FALSE]
    /\ ppc = [p \in Prods |-> "idle"]
    /\ pmsg = [p \in Prods |-> 0]
    /\ todo = [p \in Prods |-> {}]
    /\ dead = [p \in Prods |-> {}]
    /\ nextMsg = 0
    /\ issued = <<>>
    /\ hist = [s \in Subs |-> <<>>]
    /\ regAt = [s \in Subs |-> 0]
    /\ nrep = [s \in Subs |-> 0]
    /\ registered = [s \in Subs |-> FALSE]
    /\ overlap = [s \in Subs |-> {}]

(***************************************************************************)
(* The pin store and the location resolver: requests and their data.       *)
(***************************************************************************)
\* worker threads of the server, one request in flight each
Workers == {"w1", "w2"}

\* a field the JSON body of a request does not have
Missing == "missing"

\* JSON bodies of POST /pins: two complete ones, one without lat, one without name
Bodies ==
    { [lat |-> "52.5", lng |-> "13.4", name |-> "Alex"],
      [lat |-> "48.1", lng |-> "11.6", name |-> "Sam"],
      [lat |-> Missing, lng |-> "13.4", name |-> "Alex"],
      [lat |-> "52.5", lng |-> "13.4", name |-> Missing] }

\* cache_key = f"{lat},{lon}": the pair of the two formatted values
CacheKey(lat, lon) == <<lat, lon>>

Keys == {CacheKey(b.lat, b.lng) : b \in {c \in Bodies : c.lat # Missing /\ c.lng # Missing}}

\* the ids uuid4 can hand out within the bound, and those a DELETE can name
Ids == 1..MaxRequests

\* A string is a sequence of tokens, "," being the token str.split(',') splits
\* at; an optional value (None or a value) is a sequence of at most one element.
None == <<>>
Some(v) == <<v>>
UnknownLocation == <<"Unknown location">>

\* address keys in order of preference
Preference == <<"city", "town", "village", "suburb", "county", "state">>

NoAddress == [k \in {} |-> <<>>]

\* bodies of successful Nominatim responses
Responses ==
    { [address |-> [k \in {"city"} |-> <<"Berlin">>],
       display_name |-> Some(<<"Berlin", ",", "Germany">>)],
      [address |-> NoAddress, display_name |-> Some(<<"Mitte", ",", "Berlin">>)],
      [address |-> NoAddress, display_name |-> None] }

\* what requests.get, raise_for_status and response.json() come to: an
\* exception (timeout, connection error, bad status, malformed body) or data
Upstream ==
    {[raised |-> TRUE, data |-> [address |-> NoAddress, display_name |-> None]]}
        \cup {[raised |-> FALSE, data |-> r] : r \in Responses}

\* display_name.split(',')[0]
FirstSegment(str) ==
    LET commas == {i \in 1..Len(str) : str[i] = ","}
    IN  IF commas = {} THEN str
        ELSE SubSeq(str, 1, (CHOOSE i \in commas : \A j \in commas : i <= j) - 1)

\* `not location`: None or the empty string
Falsy(opt) == opt = None \/ opt[1] = <<>>

\* get_nearest_city, lines 51-68: the value of the first preferred key that the
\* address has, else the first segment of display_name, else the sentinel
ExtractLocation(data) ==
    LET present == {i \in 1..Len(Preference) : Preference[i] \in DOMAIN data.address}
        first == IF present = {} THEN None
                 ELSE Some(data.address[Preference[CHOOSE i \in present :
                                                      \A j \in present : i <= j]])
        location == IF Falsy(first) /\ data.display_name # None
                    THEN Some(FirstSegment(data.display_name[1]))
                    ELSE first
    IN  IF Falsy(location) THEN UnknownLocation ELSE location[1]

\* mutant of ErrorLocation: the except branch returns an empty name
ErrorLocationEmpty == <<>>

\* line 74: what the except branch of get_nearest_city returns
ErrorLocation == UnknownLocation

\* location_cache[cache_key] = location
CacheStore(cache, key, location) ==
    [k \in DOMAIN cache \cup {key} |-> IF k = key THEN location ELSE cache[k]]

\* mutant of FreshId: the id does not depend on what was drawn before
FreshIdRepeats(n) == 1

\* str(uuid.uuid4()): an id no earlier call has returned
FreshId(n) == n + 1

\* mutant of EnrichPin: the resolved name is not merged into the record
EnrichPinNoLocation(body, id, ts, location) ==
    [id |-> id, timestamp |-> ts, lat |-> body.lat, lng |-> body.lng,
     name |-> body.name, location |-> UnknownLocation]

\* pin_data after lines 150-156: the body plus id, timestamp and location
EnrichPin(body, id, ts, location) ==
    [id |-> id, timestamp |-> ts, lat |-> body.lat, lng |-> body.lng,
     name |-> body.name, location |-> location]

\* contents of <id>.json: no such file, a file opened for writing whose JSON is
\* not (all) there yet, a file holding the dumped pin
Absent == [st |-> "absent", pin |-> None]
Partial == [st |-> "partial", pin |-> None]
Full(pin) == [st |-> "full", pin |-> Some(pin)]

\* history of one get_nearest_city call: the outbound requests it made, whether
\* the request raised, and the body of the response it got
NoCall ==
    [tries |-> 0, raised |-> FALSE,
     data |-> [address |-> NoAddress, display_name |-> None]]

\* a worker between two requests
IdleTh ==
    [pc |-> "idle", body |-> [lat |-> Missing, lng |-> Missing, name |-> Missing],
     id |-> 0, ts |-> 0, key |-> <<Missing, Missing>>, loc |-> None,
     todo |-> {}, acc |-> <<>>, must |-> {}, call |-> NoCall]

\* what a handler returns: the status with the pin or the list of the body and
\* the message of an error body; must, resolved and call are history (the pins
\* a listing has to show, the value get_nearest_city returned to the create,
\* what that call did)
Response(kind, status, pin, list, must, resolved) ==
    [kind |-> kind, status |-> status, pin |-> pin, list |-> list,
     must |-> must, resolved |-> resolved, msg |-> "", call |-> NoCall]

NoResponse == Response("none", 0, None, <<>>, {}, None)

InCreate(w) == th[w].pc \in {"gnc_check", "gnc_request", "gnc_store", "c_open", "c_dump"}

InitPinStore ==
    /\ location_cache = [k \in {} |-> <<>>]
    /\ files = [i \in Ids |-> Absent]
    /\ th = [w \in Workers |-> IdleTh]
    /\ wres = [w \in Workers |-> NoResponse]
    /\ nreq = 0
    /\ nextId = 0
    /\ lookups = [k \in Keys |-> 0]
    /\ results = [k \in Keys |-> {}]
    /\ created = {}
    /\ deleted = {}
    /\ raced = {}

(***************************************************************************)
(* POST /pins: handle_pins with the get_nearest_city it calls.             *)
(***************************************************************************)
\* lines 149-155: the body gets an id and a timestamp; pin_data['lat'] or
\* pin_data['lng'] of a body without it raises KeyError, answered with 400
BeginCreate(w, body) ==
    /\ w \in pool
    /\ th[w].pc = "idle"
    /\ nreq < MaxRequests
    /\ nreq' = nreq + 1
    /\ nextId' = nextId + 1
    /\ IF body.lat = Missing \/ body.lng = Missing
       THEN /\ wres' = [wres EXCEPT ![w] =
                           [Response("create", 400, None, <<>>, {}, None)
                               EXCEPT !.msg = "KeyError"]]
            /\ UNCHANGED <<th, raced>>
       ELSE /\ th' = [th EXCEPT ![w] = [IdleTh EXCEPT !.pc = "gnc_check",
                                                     !.body = body,
                                                     !.id = FreshId(nextId),
                                                     !.ts = nreq + 1,
                                                     !.key = CacheKey(body.lat, body.lng)]]
            /\ wres' = [wres EXCEPT ![w] = NoResponse]
            /\ raced' = IF \E v \in Workers \ {w} : InCreate(v)
                        THEN raced \cup {FreshId(nextId)}
                                   \cup {th[v].id : v \in {u \in Workers \ {w} : InCreate(u)}}
                        ELSE raced
    /\ UNCHANGED <<location_cache, files, pool, lookups, results, created, deleted>>

\* get_nearest_city, lines 32-34: a key in the cache is returned from it
GncCheck(w) ==
    /\ th[w].pc = "gnc_check"
    /\ IF th[w].key \in DOMAIN location_cache
       THEN /\ th' = [th EXCEPT ![w].pc = "c_open",
                                ![w].loc = Some(location_cache[th[w].key])]
            /\ results' = [results EXCEPT ![th[w].key] = @ \cup {location_cache[th[w].key]}]
       ELSE /\ th' = [th EXCEPT ![w].pc = "gnc_request"]
            /\ UNCHANGED results
    /\ UNCHANGED <<location_cache, files, pool, wres, nreq, nextId, lookups,
                   created, deleted, raced>>

\* get_nearest_city, lines 37-65 and 72-74: the outbound request; an exception
\* (timeout, connection error, bad status, malformed body) returns the
\* sentinel at once, a response is turned into a place name
GncRequest(w, upstream) ==
    /\ th[w].pc = "gnc_request"
    /\ lookups' = [lookups EXCEPT ![th[w].key] = @ + 1]
    /\ \E out \in upstream :
         LET call == [tries |-> th[w].call.tries + 1, raised |-> out.raised,
                      data |-> out.data]
         IN  IF out.raised
             THEN /\ th' = [th EXCEPT ![w].pc = "c_open", ![w].loc = Some(ErrorLocation),
                                      ![w].call = call]
                  /\ results' = [results EXCEPT ![th[w].key] = @ \cup {ErrorLocation}]
             ELSE /\ th' = [th EXCEPT ![w].pc = "gnc_store",
                                      ![w].loc = Some(ExtractLocation(out.data)),
                                      ![w].call = call]
                  /\ UNCHANGED results
    /\ UNCHANGED <<location_cache, files, pool, wres, nreq, nextId,
                   created, deleted, raced>>

\* get_nearest_city, lines 68-70: the name is cached and returned
GncStore(w) ==
    /\ th[w].pc = "gnc_store"
    /\ location_cache' = CacheStore(location_cache, th[w].key, th[w].loc[1])
    /\ results' = [results EXCEPT ![th[w].key] = @ \cup {th[w].loc[1]}]
    /\ th' = [th EXCEPT ![w].pc = "c_open"]
    /\ UNCHANGED <<files, pool, wres, nreq, nextId, lookups, created, deleted, raced>>

\* lines 159-160: open(pin_file, 'w') creates or truncates the file; an
\* OSError is answered with 400 by the handler's except
CreateOpen(w, disk) ==
    /\ th[w].pc = "c_open"
    /\ \E out \in disk :
         IF out = "ok"
         THEN /\ files' = [files EXCEPT ![th[w].id] = Partial]
              /\ th' = [th EXCEPT ![w].pc = "c_dump"]
              /\ UNCHANGED wres
         ELSE /\ wres' = [wres EXCEPT ![w] =
                             [Response("create", 400, None, <<>>, {}, th[w].loc)
                                 EXCEPT !.msg = "OSError", !.call = th[w].call]]
              /\ th' = [th EXCEPT ![w] = IdleTh]
              /\ UNCHANGED files
    /\ UNCHANGED <<location_cache, pool, nreq, nextId, lookups, results,
                   created, deleted, raced>>

\* lines 156-164: the record goes into the file (a file unlinked meanwhile
\* stays gone) and is returned; a failing write leaves what was written and
\* is answered with 400
CreateDump(w, disk) ==
    /\ th[w].pc = "c_dump"
    /\ LET pin == EnrichPin(th[w].body, th[w].id, th[w].ts, th[w].loc[1])
       IN  \E out \in disk :
             IF out = "ok"
             THEN /\ files' = IF files[th[w].id].st = "absent" THEN files
                              ELSE [files EXCEPT ![th[w].id] = Full(pin)]
                  /\ wres' = [wres EXCEPT ![w] =
                                 [Response("create", 200, Some(pin), <<>>, {}, th[w].loc)
                                     EXCEPT !.call = th[w].call]]
                  /\ created' = created \cup {pin}
             ELSE /\ wres' = [wres EXCEPT ![w] =
                                 [Response("create", 400, None, <<>>, {}, th[w].loc)
                                     EXCEPT !.msg = "OSError", !.call = th[w].call]]
                  /\ UNCHANGED <<files, created>>
    /\ th' = [th EXCEPT ![w] = IdleTh]
    /\ UNCHANGED <<location_cache, pool, nreq, nextId, lookups, results, deleted, raced>>

(***************************************************************************)
(* GET /pins: load_locations.                                              *)
(***************************************************************************)
\* mutant of LoadFile: a file that cannot be parsed ends the listing empty
LoadFileOrNothing(acc, file) ==
    IF file.st = "full" THEN Append(acc, file.pin[1]) ELSE <<>>

\* lines 124-131: json.load of one file appended to locations; a file that is
\* gone or does not hold a whole JSON document raises, is logged and skipped
LoadFile(acc, file) ==
    IF file.st = "full" THEN Append(acc, file.pin[1]) ELSE acc

\* line 119: files = os.listdir(PINS_DIR)
BeginList(w) ==
    /\ w \in pool
    /\ th[w].pc = "idle"
    /\ nreq < MaxRequests
    /\ nreq' = nreq + 1
    /\ th' = [th EXCEPT ![w] = [IdleTh EXCEPT !.pc = "l_read",
                                              !.todo = {i \in Ids : files[i].st # "absent"},
                                              !.must = created]]
    /\ wres' = [wres EXCEPT ![w] = NoResponse]
    /\ UNCHANGED <<location_cache, files, pool, nextId, lookups, results,
                   created, deleted, raced>>

\* lines 122-131: one file of the listing is opened and parsed; a file that is
\* gone or does not hold a whole JSON document raises and is skipped
ListRead(w) ==
    /\ th[w].pc = "l_read"
    /\ \E i \in th[w].todo :
         th' = [th EXCEPT ![w].todo = @ \ {i},
                          ![w].acc = LoadFile(@, files[i])]
    /\ UNCHANGED <<location_cache, files, pool, wres, nreq, nextId, lookups, results,
                   created, deleted, raced>>

\* lines 135-136 and 146: return jsonify(locations)
ListReturn(w) ==
    /\ th[w].pc = "l_read"
    /\ th[w].todo = {}
    /\ wres' = [wres EXCEPT ![w] = Response("list", 200, None, th[w].acc, th[w].must, None)]
    /\ th' = [th EXCEPT ![w] = IdleTh]
    /\ UNCHANGED <<location_cache, files, pool, nreq, nextId, lookups, results,
                   created, deleted, raced>>

(***************************************************************************)
(* DELETE /pins/<pin_id>: delete_pin.                                      *)
(***************************************************************************)
\* mutant of RemoveFile: the whole directory is emptied
RemoveFileAll(dir, i) == [j \in DOMAIN dir |-> Absent]

\* line 175: os.remove(pin_file) unlinks the one file <pin_id>.json
RemoveFile(dir, i) == [dir EXCEPT ![i] = Absent]

\* lines 173-174 and 178-180: os.path.exists(pin_file), 404 when it does not
BeginDelete(w, i) ==
    /\ w \in pool
    /\ th[w].pc = "idle"
    /\ nreq < MaxRequests
    /\ nreq' = nreq + 1
    /\ IF files[i].st # "absent"
       THEN /\ th' = [th EXCEPT ![w] = [IdleTh EXCEPT !.pc = "d_remove", !.id = i]]
            /\ wres' = [wres EXCEPT ![w] = NoResponse]
       ELSE /\ wres' = [wres EXCEPT ![w] =
                           [Response("delete", 404, None, <<>>, {}, None)
                               EXCEPT !.msg = "Pin not found"]]
            /\ UNCHANGED th
    /\ UNCHANGED <<location_cache, files, pool, nextId, lookups, results,
                   created, deleted, raced>>

\* lines 175-177 and 181-183: os.remove(pin_file); for a file that is gone by
\* now it raises FileNotFoundError, answered with 500
DeleteRemove(w) ==
    /\ th[w].pc = "d_remove"
    /\ IF files[th[w].id].st # "absent"
       THEN /\ files' = RemoveFile(files, th[w].id)
            /\ deleted' = deleted \cup {th[w].id}
            /\ wres' = [wres EXCEPT ![w] =
                           [Response("delete", 200, None, <<>>, {}, None)
                               EXCEPT !.msg = "Pin deleted successfully"]]
       ELSE /\ wres' = [wres EXCEPT ![w] =
                           [Response("delete", 500, None, <<>>, {}, None)
                               EXCEPT !.msg = "FileNotFoundError"]]
            /\ UNCHANGED <<files, deleted>>
    /\ th' = [th EXCEPT ![w] = IdleTh]
    /\ UNCHANGED <<location_cache, pool, nreq, nextId, lookups, results, created, raced>>

(***************************************************************************)
(* Specifications of the /pins handlers.  No handler calls the Broadcaster *)
(* (broadcaster.broadcast has no caller in app.py), so its state stays as  *)
(* constructed.                                                            *)
(***************************************************************************)
Serving(A) == A /\ UNCHANGED streamVars

\* the handlers with everything their environment can do: any body, any
\* outcome of the geocoding request, a disk that may fail
NextSeq ==
    \/ \E w \in Workers : \E body \in Bodies : Serving(BeginCreate(w, body))
    \/ \E w \in Workers : Serving(GncCheck(w))
    \/ \E w \in Workers : Serving(GncRequest(w, Upstream))
    \/ \E w \in Workers : Serving(GncStore(w))
    \/ \E w \in Workers : Serving(CreateOpen(w, {"ok", "oserror"}))
    \/ \E w \in Workers : Serving(CreateDump(w, {"ok", "oserror"}))
    \/ \E w \in Workers : Serving(BeginList(w))
    \/ \E w \in Workers : Serving(ListRead(w))
    \/ \E w \in Workers : Serving(ListReturn(w))
    \/ \E w \in Workers : \E i \in Ids : Serving(BeginDelete(w, i))
    \/ \E w \in Workers : Serving(DeleteRemove(w))

\* one worker thread: the requests are served one after the other
InitSeq == InitBroadcaster /\ faulty = {} /\ InitPinStore /\ pool = {"w1"}

SpecSeq == InitSeq /\ [][NextSeq]_vars

\* what the concurrent specification lets the environment do: complete bodies,
\* a geocoding request that fails or names a city, a disk that works
PoolBodies == {b \in Bodies : b.lat # Missing /\ b.lng # Missing /\ b.name # Missing}
PoolUpstream == {o \in Upstream : o.raised \/ "city" \in DOMAIN o.data.address}

NextPins ==
    \/ \E w \in Workers : \E body \in PoolBodies : Serving(BeginCreate(w, body))
    \/ \E w \in Workers : Serving(GncCheck(w))
    \/ \E w \in Workers : Serving(GncRequest(w, PoolUpstream))
    \/ \E w \in Workers : Serving(GncStore(w))
    \/ \E w \in Workers : Serving(CreateOpen(w, {"ok"}))
    \/ \E w \in Workers : Serving(CreateDump(w, {"ok"}))
    \/ \E w \in Workers : Serving(BeginList(w))
    \/ \E w \in Workers : Serving(ListRead(w))
    \/ \E w \in Workers : Serving(ListReturn(w))
    \/ \E w \in Workers : \E i \in Ids : Serving(BeginDelete(w, i))
    \/ \E w \in Workers : Serving(DeleteRemove(w))

\* two worker threads serving requests concurrently
InitPins == InitBroadcaster /\ faulty = {} /\ InitPinStore /\ pool = Workers

SpecPins == InitPins /\ [][NextPins]_vars

(***************************************************************************)
(* /stream: event_stream up to the end of broadcaster.register.            *)
(***************************************************************************)
\* a client connects: client_queue = queue.Queue(); register is called
Connect(s) ==
    /\ spc[s] = "idle"
    /\ spc' = [spc EXCEPT ![s] = "reg_lock"]
    /\ connected' = [connected EXCEPT ![s] = TRUE]
    /\ UNCHANGED <<bcVars, queue, ri, faulty, prodVars, histVars>>

\* register: `with self.lock:`
RegisterAcquire(s) ==
    /\ spc[s] = "reg_lock"
    /\ CanAcquire(lock)
    /\ lock' = s
    /\ spc' = [spc EXCEPT ![s] = "reg_add"]
    /\ UNCHANGED <<clients, messages, queue, ri, connected, faulty, prodVars, histVars>>

\* register: self.clients.add(queue)
RegisterAdd(s) ==
    /\ spc[s] = "reg_add"
    /\ clients' = clients \cup {s}
    /\ ri' = [ri EXCEPT ![s] = 1]
    /\ regAt' = [regAt EXCEPT ![s] = Len(issued)]
    /\ spc' = [spc EXCEPT ![s] = "reg_replay"]
    /\ UNCHANGED <<messages, lock, queue, connected, faulty, prodVars,
                   issued, hist, nrep, registered>>

\* register: one turn of `for msg in self.messages: queue.put(msg)`; a put that
\* raises leaves the with block (the lock is released) and event_stream's try
RegisterReplay(s) ==
    /\ spc[s] = "reg_replay"
    /\ ri[s] <= Len(messages)
    /\ \E out \in PutOutcomes(s) :
         IF out = "ok"
         THEN /\ queue' = [queue EXCEPT ![s] = Append(@, ReplayMsg(messages, ri[s]))]
              /\ hist' = [hist EXCEPT ![s] = Append(@, ReplayMsg(messages, ri[s]))]
              /\ nrep' = [nrep EXCEPT ![s] = @ + 1]
              /\ ri' = [ri EXCEPT ![s] = @ + 1]
              /\ UNCHANGED <<lock, spc>>
         ELSE /\ lock' = IF lock = s THEN "free" ELSE lock
              /\ spc' = [spc EXCEPT ![s] = "unreg_lock"]
              /\ UNCHANGED <<queue, hist, nrep, ri>>
    /\ UNCHANGED <<clients, messages, connected, faulty, prodVars,
                   issued, regAt, registered>>

\* register: the loop is over, the with block ends, register returns
RegisterReturn(s) ==
    /\ spc[s] = "reg_replay"
    /\ ri[s] > Len(messages)
    /\ lock' = IF lock = s THEN "free" ELSE lock
    /\ registered' = [registered EXCEPT ![s] = TRUE]
    /\ spc' = [spc EXCEPT ![s] = "get"]
    /\ UNCHANGED <<clients, messages, queue, ri, connected, faulty, prodVars,
                   issued, hist, regAt, nrep>>

(***************************************************************************)
(* Broadcaster.broadcast.                                                  *)
(***************************************************************************)
\* a thread calls broadcast(msg); the k-th call carries message k
BroadcastCall(p, max) ==
    /\ ppc[p] = "idle"
    /\ nextMsg < max
    /\ nextMsg' = nextMsg + 1
    /\ pmsg' = [pmsg EXCEPT ![p] = nextMsg + 1]
    /\ ppc' = [ppc EXCEPT ![p] = "bc_lock"]
    /\ UNCHANGED <<bcVars, subVars, faulty, todo, dead, histVars>>

\* broadcast: `with self.lock:`
BroadcastAcquire(p) ==
    /\ ppc[p] = "bc_lock"
    /\ CanAcquire(lock)
    /\ lock' = p
    /\ ppc' = [ppc EXCEPT ![p] = "bc_append"]
    /\ UNCHANGED <<clients, messages, subVars, faulty, pmsg, todo, dead, nextMsg, histVars>>

\* broadcast: self.messages.append(msg); dead_clients = set(); the loop starts
BroadcastAppend(p) ==
    /\ ppc[p] = "bc_append"
    /\ messages' = DequeAppend(messages, pmsg[p])
    /\ issued' = Append(issued, pmsg[p])
    /\ todo' = [todo EXCEPT ![p] = FanoutTargets(clients)]
    /\ dead' = [dead EXCEPT ![p] = {}]
    /\ ppc' = [ppc EXCEPT ![p] = "bc_put"]
    /\ UNCHANGED <<clients, lock, subVars, faulty, pmsg, nextMsg,
                   hist, regAt, nrep, registered>>

\* broadcast: one turn of the fan-out loop, try: client_queue.put(msg)
\* except: dead_clients.add(client_queue)
BroadcastPut(p) ==
    /\ ppc[p] = "bc_put"
    /\ \E c \in todo[p] :
         /\ todo' = [todo EXCEPT ![p] = @ \ {c}]
         /\ \E out \in PutOutcomes(c) :
              IF out = "ok"
              THEN /\ queue' = [queue EXCEPT ![c] = Append(@, pmsg[p])]
                   /\ hist' = [hist EXCEPT ![c] = Append(@, pmsg[p])]
                   /\ UNCHANGED dead
              ELSE /\ dead' = [dead EXCEPT ![p] = @ \cup {c}]
                   /\ UNCHANGED <<queue, hist>>
    /\ UNCHANGED <<bcVars, spc, ri, connected, faulty, ppc, pmsg, nextMsg,
                   issued, regAt, nrep, registered>>

\* broadcast: `for dead in dead_clients: self.clients.remove(dead)`, the with
\* block ends, broadcast returns
BroadcastCleanup(p) ==
    /\ ppc[p] = "bc_put"
    /\ todo[p] = {}
    /\ clients' = PurgeDead(clients, dead[p])
    /\ lock' = IF lock = p THEN "free" ELSE lock
    /\ ppc' = [ppc EXCEPT ![p] = "idle"]
    /\ UNCHANGED <<messages, subVars, faulty, pmsg, todo, dead, nextMsg, histVars>>

(***************************************************************************)
(* /stream: event_stream after register, and the transport around it.      *)
(***************************************************************************)
\* message = client_queue.get(): blocks while the queue is empty; None breaks
\* the loop and falls into the finally block
Get(s) ==
    /\ spc[s] = "get"
    /\ queue[s] # <<>>
    /\ queue' = [queue EXCEPT ![s] = Tail(@)]
    /\ spc' = [spc EXCEPT ![s] = IF Head(queue[s]) = NoneMsg THEN "unreg_lock" ELSE "yield"]
    /\ UNCHANGED <<bcVars, ri, connected, faulty, prodVars, histVars>>

\* yield f"data: {message}\n\n": the server wrote the event to a client that
\* is still there and asks the generator for the next one
Resume(s) ==
    /\ spc[s] = "yield"
    /\ connected[s]
    /\ spc' = [spc EXCEPT ![s] = "get"]
    /\ UNCHANGED <<bcVars, queue, ri, connected, faulty, prodVars, histVars>>

\* the client is gone: the server closes the generator, GeneratorExit is
\* raised at the yield where it is suspended, and the finally block runs
Close(s) ==
    /\ spc[s] = "yield"
    /\ ~connected[s]
    /\ spc' = [spc EXCEPT ![s] = "unreg_lock"]
    /\ UNCHANGED <<bcVars, queue, ri, connected, faulty, prodVars, histVars>>

\* the HTTP client of a running handler disconnects. The handler reads the
\* connection only where it is suspended at the yield, so a disconnection during
\* register is the same disconnection seen once the handler waits on its queue
Disconnect(s) ==
    /\ connected[s]
    /\ spc[s] \in {"get", "yield"}
    /\ connected' = [connected EXCEPT ![s] = FALSE]
    /\ UNCHANGED <<bcVars, spc, queue, ri, faulty, prodVars, histVars>>

\* unregister: `with self.lock:`
UnregisterAcquire(s) ==
    /\ spc[s] = "unreg_lock"
    /\ CanAcquire(lock)
    /\ lock' = s
    /\ spc' = [spc EXCEPT ![s] = "unreg_remove"]
    /\ UNCHANGED <<clients, messages, queue, ri, connected, faulty, prodVars, histVars>>

\* unregister: self.clients.remove(queue). set.remove raises KeyError for a
\* queue that is not in the set: the with block releases the lock and the
\* exception leaves the finally block before client_queue.put(None)
UnregisterRemove(s) ==
    /\ spc[s] = "unreg_remove"
    /\ lock' = IF lock = s THEN "free" ELSE lock
    /\ IF s \in clients
       THEN /\ clients' = clients \ {s}
            /\ spc' = [spc EXCEPT ![s] = "put_none"]
       ELSE /\ UNCHANGED clients
            /\ spc' = [spc EXCEPT ![s] = "crashed"]
    /\ UNCHANGED <<messages, queue, ri, connected, faulty, prodVars, histVars>>

\* finally: client_queue.put(None), and the generator ends
PutNone(s) ==
    /\ spc[s] = "put_none"
    /\ \E out \in PutOutcomes(s) :
         IF out = "ok"
         THEN /\ queue' = [queue EXCEPT ![s] = Append(@, NoneMsg)]
              /\ hist' = [hist EXCEPT ![s] = Append(@, NoneMsg)]
         ELSE UNCHANGED <<queue, hist>>
    /\ spc' = [spc EXCEPT ![s] = "closed"]
    /\ UNCHANGED <<bcVars, ri, connected, faulty, prodVars, issued, regAt, nrep, registered>>

\* one step of the /stream handler s or of its transport
StreamStep(s) ==
    \/ Connect(s)
    \/ RegisterAcquire(s)
    \/ RegisterAdd(s)
    \/ RegisterReplay(s)
    \/ RegisterReturn(s)
    \/ Get(s)
    \/ Resume(s)
    \/ Close(s)
    \/ UnregisterAcquire(s)
    \/ UnregisterRemove(s)
    \/ PutNone(s)

(***************************************************************************)
(* Specification of the Broadcaster with its /stream handlers: two         *)
(* connections, two broadcasting threads, puts that may raise.             *)
(***************************************************************************)
InitBroadcast == InitBroadcaster /\ faulty = Subs /\ InitPinStore /\ pool = {}

NextBroadcast ==
    \/ \E s \in Subs : Untracked(Connect(s))
    \/ \E s \in Subs : Untracked(RegisterAcquire(s))
    \/ \E s \in Subs : Untracked(RegisterAdd(s))
    \/ \E s \in Subs : Untracked(RegisterReplay(s))
    \/ \E s \in Subs : Untracked(RegisterReturn(s))
    \/ \E s \in Subs : Untracked(Get(s))
    \/ \E s \in Subs : Untracked(Resume(s))
    \/ \E s \in Subs : Untracked(Close(s))
    \/ \E s \in Subs : Untracked(Disconnect(s))
    \/ \E s \in Subs : Untracked(UnregisterAcquire(s))
    \/ \E s \in Subs : Untracked(UnregisterRemove(s))
    \/ \E s \in Subs : Untracked(PutNone(s))
    \/ \E p \in Prods : Untracked(BroadcastCall(p, MaxBroadcasts))
    \/ \E p \in Prods : Untracked(BroadcastAcquire(p))
    \/ \E p \in Prods : Untracked(BroadcastAppend(p))
    \/ \E p \in Prods : Untracked(BroadcastPut(p))
    \/ \E p \in Prods : Untracked(BroadcastCleanup(p))

SpecBroadcast == InitBroadcast /\ [][NextBroadcast]_vars

(***************************************************************************)
(* Specification of register racing with broadcast: two connections that   *)
(* register, two broadcasting threads, and the observer that records which *)
(* broadcast calls were in flight during which register call.              *)
(***************************************************************************)
NextRace ==
    \/ \E s \in Subs : Tracked(Connect(s))
    \/ \E s \in Subs : Tracked(RegisterAcquire(s))
    \/ \E s \in Subs : Tracked(RegisterAdd(s))
    \/ \E s \in Subs : Tracked(RegisterReplay(s))
    \/ \E s \in Subs : Tracked(RegisterReturn(s))
    \/ \E s \in Subs : Tracked(UnregisterAcquire(s))
    \/ \E s \in Subs : Tracked(UnregisterRemove(s))
    \/ \E s \in Subs : Tracked(PutNone(s))
    \/ \E p \in Prods : Tracked(BroadcastCall(p, MaxBroadcasts))
    \/ \E p \in Prods : Tracked(BroadcastAcquire(p))
    \/ \E p \in Prods : Tracked(BroadcastAppend(p))
    \/ \E p \in Prods : Tracked(BroadcastPut(p))
    \/ \E p \in Prods : Tracked(BroadcastCleanup(p))

SpecRace == InitBroadcast /\ [][NextRace]_vars

(***************************************************************************)
(* Specification of the replay buffer: one producer, one late subscriber,  *)
(* queue.Queue() as in the code (put never raises), more broadcasts than   *)
(* the buffer holds.                                                       *)
(***************************************************************************)
InitBuf == InitBroadcaster /\ faulty = {} /\ InitPinStore /\ pool = {}

NextBuf ==
    \/ Untracked(Connect("s1"))
    \/ Untracked(RegisterAcquire("s1"))
    \/ Untracked(RegisterAdd("s1"))
    \/ Untracked(RegisterReplay("s1"))
    \/ Untracked(RegisterReturn("s1"))
    \/ Untracked(BroadcastCall("p1", Capacity + MaxOverflow))
    \/ Untracked(BroadcastAcquire("p1"))
    \/ Untracked(BroadcastAppend("p1"))
    \/ Untracked(BroadcastPut("p1"))
    \/ Untracked(BroadcastCleanup("p1"))

SpecBuf == InitBuf /\ [][NextBuf]_vars

(***************************************************************************)
(* Specification of the application as a whole: a /stream connection that  *)
(* registers, and worker threads that serve /pins.  Nothing ever calls     *)
(* broadcast, so the steps that need a message (the replay loop, a         *)
(* successful get, and what follows it) cannot happen and are left out.    *)
(***************************************************************************)
NextApp ==
    \/ Untracked(Connect("s1"))
    \/ Untracked(RegisterAcquire("s1"))
    \/ Untracked(RegisterAdd("s1"))
    \/ Untracked(RegisterReturn("s1"))
    \/ NextPins

SpecApp == InitPins /\ [][NextApp]_vars

(***************************************************************************)
(* Properties of the Broadcaster.                                          *)
(***************************************************************************)
\* what was put on the queue of s after register's replay
LivePart(s) == SubSeq(hist[s], nrep[s] + 1, Len(hist[s]))

WithoutNone(q) == SelectSeq(q, LAMBDA m : m # NoneMsg)

\* the messages appended to the buffer since s was added to clients
IssuedSince(s) == SubSeq(issued, regAt[s] + 1, Len(issued))

\* a fan-out loop that is running has not reached s yet
Pending(s) == \E p \in Prods : ppc[p] = "bc_put" /\ s \in todo[p]

\* a put to s raised in a broadcast (s is purged when that broadcast ends)
Failed(s) == \E p \in Prods : s \in dead[p]

\* the broadcast call that carried m has returned
BroadcastReturned(m) ==
    /\ m \in Range(issued)
    /\ \A p \in Prods : ~(pmsg[p] = m /\ ppc[p] # "idle")

\* C2: each queue holds, after its replay, the messages broadcast while it was
\* in the active set, in the order broadcast appended them and each once: for
\* every queue they form a prefix of the messages appended since it was added,
\* and for a queue that is in the active set (and whose delivery has not
\* failed) they are all of them, up to the one a running fan-out has not
\* delivered yet.
C2_InOrderExactlyOnce ==
    \A s \in Subs :
        /\ IsPrefix(WithoutNone(LivePart(s)), IssuedSince(s))
        /\ (s \in clients /\ ~Failed(s)) =>
              WithoutNone(LivePart(s)) =
                 SubSeq(issued, regAt[s] + 1,
                        Len(issued) - (IF Pending(s) THEN 1 ELSE 0))

\* two live messages in a row on the queue of a registered subscriber
C2_Witness ==
    \E s \in clients :
        /\ registered[s]
        /\ lock = "free"
        /\ Len(LivePart(s)) = 2
        /\ LivePart(s) = IssuedSince(s)

\* C3: a queue registered after N <= Capacity broadcasts starts with exactly
\* those N messages in broadcast order, and everything after them on the queue
\* was broadcast after the registration (or is the handler's own None).
C3_ReplayThenLive ==
    \A s \in Subs :
        (registered[s] /\ regAt[s] <= Capacity) =>
            /\ nrep[s] = regAt[s]
            /\ SubSeq(hist[s], 1, regAt[s]) = SubSeq(issued, 1, regAt[s])
            /\ \A i \in (nrep[s] + 1)..Len(hist[s]) :
                  \/ hist[s][i] = NoneMsg
                  \/ \E j \in (regAt[s] + 1)..Len(issued) : issued[j] = hist[s][i]

\* a queue registered after exactly Capacity broadcasts that then got a live one
C3_Witness ==
    /\ registered["s1"]
    /\ regAt["s1"] = Capacity
    /\ Len(hist["s1"]) = Capacity + 1

\* C4: the replay buffer never holds more than Capacity messages, and holds the
\* most recently appended ones in arrival order; a queue registered after more
\* than Capacity broadcasts is replayed exactly the last Capacity of them.
C4_BufferBounded ==
    /\ Len(messages) <= Capacity
    /\ messages = LastN(issued, Capacity)
    /\ \A s \in Subs :
          (registered[s] /\ regAt[s] > Capacity) =>
              /\ nrep[s] = Capacity
              /\ SubSeq(hist[s], 1, Capacity) =
                    SubSeq(issued, regAt[s] - Capacity + 1, regAt[s])

\* a queue registered after the buffer has evicted its oldest message
C4_Witness ==
    /\ registered["s1"]
    /\ regAt["s1"] = Capacity + 1
    /\ hist["s1"][1] = 2

\* C5: a message whose broadcast call was in flight during the register call
\* of s is never on the queue of s twice, and once both calls have returned it
\* is there exactly once for a queue still in the active set (fewer than
\* Capacity broadcasts having been made, so that the buffer cannot have evicted it).
C5_RaceExactlyOnce ==
    \A s \in Subs : \A m \in overlap[s] :
        /\ Count(m, hist[s]) <= 1
        /\ (registered[s] /\ s \in clients /\ BroadcastReturned(m)
               /\ Len(issued) <= Capacity) => Count(m, hist[s]) = 1

\* register and broadcast overlapped, both returned, and the message came with
\* the replay, as its last element
C5_Witness ==
    \E s \in clients : \E m \in overlap[s] :
        /\ registered[s]
        /\ BroadcastReturned(m)
        /\ nrep[s] >= 1
        /\ hist[s][nrep[s]] = m

\* C6 as claimed: unregister never raises, so no handler's finally block is
\* left by a KeyError before it has put its None.
C6_UnregisterNeverRaises == \A s \in Subs : spc[s] # "crashed"

\* C8 as claimed: a handler whose client has gone, with no broadcast in flight
\* and the lock free, has either ended or can take its next step by itself.
C8_NoOrphanedWait ==
    \A s \in Subs :
        (/\ spc[s] # "idle"
         /\ ~connected[s]
         /\ lock = "free"
         /\ \A p \in Prods : ppc[p] = "idle")
        => (spc[s] \in {"closed", "crashed"} \/ ENABLED Untracked(StreamStep(s)))

(***************************************************************************)
(* Properties of the /pins handlers.                                       *)
(***************************************************************************)
\* the message that would carry a pin: JSON payloads of pins with different
\* ids differ, so the payload is named by the id
Payload(pin) == pin.id

CreateSucceeded(w) == wres[w].kind = "create" /\ wres[w].status = 200

Listed(w) == wres[w].kind = "list"

\* C1 as claimed: once a create has succeeded, every registered subscriber has
\* the payload of the new pin on its queue and the payload is in the replay buffer.
C1_CreatePublishes ==
    \A w \in Workers : CreateSucceeded(w) =>
        \A s \in clients : registered[s] =>
            /\ \E i \in 1..Len(hist[s]) : hist[s][i] = Payload(wres[w].pin[1])
            /\ \E i \in 1..Len(messages) : messages[i] = Payload(wres[w].pin[1])

\* C7 as claimed: for no coordinate pair is the geocoder asked twice by calls
\* made one after the other, and all of them return the same value.
C7_ResolvedOnce ==
    \A k \in Keys : lookups[k] <= 1 /\ Cardinality(results[k]) <= 1

\* C9: a successful create returns a pin with an id no other pin has, a
\* timestamp, and the location get_nearest_city returned; and a listing begun
\* after it returned shows that pin exactly once, as returned, unless a delete
\* has removed its file.
C9_CreateThenListed ==
    /\ \A w \in Workers : CreateSucceeded(w) =>
          LET pin == wres[w].pin[1]
          IN  /\ pin.id \in 1..nextId
              /\ pin.timestamp \in 1..nreq
              /\ pin.location = wres[w].resolved[1]
              /\ \A q \in created : q.id = pin.id => q = pin
    /\ \A w \in Workers : Listed(w) =>
          \A pin \in wres[w].must :
              pin.id \notin deleted =>
                  /\ Count(pin, wres[w].list) = 1
                  /\ Cardinality({i \in 1..Len(wres[w].list) :
                                     wres[w].list[i].id = pin.id}) = 1

\* a listing shows a pin created before it with a resolved city
C9_Witness ==
    \E w \in Workers :
        /\ Listed(w)
        /\ \E pin \in wres[w].must :
              /\ pin.id \notin deleted
              /\ pin.location = <<"Berlin">>
              /\ Count(pin, wres[w].list) = 1

\* C10: pins of different creates have different ids, the file of a created
\* pin holds that pin as long as no delete removed it, and a listing begun
\* after two creates that ran concurrently shows both pins.
C10_ConcurrentCreates ==
    /\ \A p, q \in created : p # q => p.id # q.id
    /\ \A p \in created : p.id \notin deleted => files[p.id] = Full(p)
    /\ \A w \in Workers : Listed(w) =>
          \A p \in wres[w].must :
              (p.id \in raced /\ p.id \notin deleted) => Count(p, wres[w].list) = 1

\* two creates overlapped, both succeeded, and a later listing shows both
C10_Witness ==
    \E w \in Workers :
        /\ Listed(w)
        /\ \E p, q \in wres[w].must :
              /\ p.id # q.id
              /\ {p.id, q.id} \subseteq raced
              /\ Count(p, wres[w].list) = 1
              /\ Count(q, wres[w].list) = 1

(***************************************************************************)
(* Properties of delete_pin and load_locations, requests served one after  *)
(* the other.                                                              *)
(***************************************************************************)
\* C11: a delete of an id that has no file answers 404 "Pin not found" and
\* leaves the whole directory as it was; a delete of an id that has a file
\* answers success, removes that file, and leaves every other file as it was.
C11_DeleteExactly ==
    [][\A w \in Workers :
          /\ \A i \in Ids :
                BeginDelete(w, i) =>
                    /\ files' = files
                    /\ IF files[i].st = "absent"
                       THEN /\ wres'[w].kind = "delete"
                            /\ wres'[w].status = 404
                            /\ wres'[w].msg = "Pin not found"
                       ELSE th'[w].pc = "d_remove" /\ th'[w].id = i
          /\ DeleteRemove(w) =>
                /\ wres'[w].kind = "delete"
                /\ wres'[w].status = 200
                /\ files[th[w].id].st # "absent"
                /\ files'[th[w].id] = Absent
                /\ \A j \in Ids \ {th[w].id} : files'[j] = files[j]
    ]_vars

\* a delete answered success, its file is gone and another pin is still stored
C11_Witness ==
    \E w \in Workers :
        /\ wres[w].kind = "delete"
        /\ wres[w].status = 200
        /\ \E i \in deleted : files[i] = Absent
        /\ \E j \in Ids \ deleted : files[j].st = "full"

\* C12: a listing always answers 200, and with files in the directory that do
\* not hold a whole record it returns exactly the records of the other files,
\* each once: the bad files are skipped and nothing else is.
C12_ListingSkipsBadFiles ==
    [][\A w \in Workers :
          ListReturn(w) =>
              /\ wres'[w].kind = "list"
              /\ wres'[w].status = 200
              /\ \A i \in Ids :
                    files[i].st = "full" => Count(files[i].pin[1], wres'[w].list) = 1
              /\ Len(wres'[w].list) = Cardinality({i \in Ids : files[i].st = "full"})
    ]_vars

\* a listing made with a truncated file in the directory shows the one valid pin
C12_Witness ==
    \E w \in Workers :
        /\ Listed(w)
        /\ \E i \in Ids : files[i].st = "partial"
        /\ \E j \in Ids : files[j].st = "full" /\ wres[w].list = <<files[j].pin[1]>>

(***************************************************************************)
(* Properties of create with a geocoding request that fails.               *)
(***************************************************************************)
\* C13: a create whose geocoding request raised made exactly one outbound
\* request in that call and goes on with "Unknown location"; on a working disk
\* it answers 200 with a pin whose location is "Unknown location", and that
\* pin is in its file as long as no delete removed it.
C13_LookupFailureAbsorbed ==
    /\ \A w \in Workers : th[w].call.raised =>
          /\ th[w].pc \in {"c_open", "c_dump"}
          /\ th[w].call.tries = 1
          /\ th[w].loc = Some(UnknownLocation)
    /\ \A w \in Workers : (wres[w].kind = "create" /\ wres[w].call.raised) =>
          /\ wres[w].status = 200
          /\ wres[w].call.tries = 1
          /\ wres[w].pin # None
          /\ wres[w].pin[1].location = UnknownLocation
          /\ wres[w].pin[1] \in created
          /\ wres[w].pin[1].id \notin deleted =>
                files[wres[w].pin[1].id] = Full(wres[w].pin[1])

\* a create whose lookup raised has answered 200 and its pin is stored
C13_Witness ==
    \E w \in Workers :
        /\ CreateSucceeded(w)
        /\ wres[w].call.raised
        /\ wres[w].call.tries = 1
        /\ files[wres[w].pin[1].id] = Full(wres[w].pin[1])
        /\ wres[w].pin[1].location = UnknownLocation

(***************************************************************************)
(* Properties of create with a bad body or a failing disk.                 *)
(***************************************************************************)
Complete(r) == r.lat # Missing /\ r.lng # Missing /\ r.name # Missing

\* C14 as claimed: a create whose body lacks lat, lng or name never gets as far
\* as the file and never answers success (it answers 4xx with a message), so
\* every record in the directory has all three fields.
C14_IncompleteBodyRejected ==
    /\ \A w \in Workers : th[w].pc \in {"c_open", "c_dump"} => Complete(th[w].body)
    /\ \A w \in Workers : CreateSucceeded(w) => Complete(wres[w].pin[1])
    /\ \A w \in Workers : (wres[w].kind = "create" /\ wres[w].status # 200) =>
          wres[w].status \in 400..499 /\ wres[w].msg # ""
    /\ \A i \in Ids : files[i].st = "full" => Complete(files[i].pin[1])

\* C15 as claimed: a create that failed on an I/O error of the write is
\* answered with a server error (5xx), not with the 400 of a bad body.
C15_WriteErrorIsServerError ==
    \A w \in Workers :
        (wres[w].kind = "create" /\ wres[w].msg = "OSError") =>
            wres[w].status \in 500..599

(***************************************************************************)
(* Specification of concurrent get_nearest_city calls: two workers serving *)
(* creates, a geocoder that answers every request (so that nothing here    *)
(* rests on the uncached except branch), a disk that works.                *)
(***************************************************************************)
Answering == {o \in Upstream : ~o.raised}

NextGeo ==
    \/ \E w \in Workers : \E body \in PoolBodies : Serving(BeginCreate(w, body))
    \/ \E w \in Workers : Serving(GncCheck(w))
    \/ \E w \in Workers : Serving(GncRequest(w, Answering))
    \/ \E w \in Workers : Serving(GncStore(w))
    \/ \E w \in Workers : Serving(CreateOpen(w, {"ok"}))
    \/ \E w \in Workers : Serving(CreateDump(w, {"ok"}))

SpecGeo == InitPins /\ [][NextGeo]_vars

\* C16 as claimed: for no coordinate pair is more than one outbound request
\* ever made, however the calls of concurrent creates interleave.
C16_OneLookupPerKey == \A k \in Keys : lookups[k] <= 1

(***************************************************************************)
(* Properties of a broadcast whose puts may fail.                          *)
(***************************************************************************)
\* the step with which the broadcast call of p returns
BroadcastReturns(p) == ppc[p] = "bc_put" /\ ppc'[p] = "idle"

\* during the call of p that is about to return, the put of its message on the
\* queue of s succeeded
Enqueued(p, s) == Count(pmsg[p], LivePart(s)) = 1

\* C17: when broadcast(m) returns, every queue of the active set was either put
\* m or marked dead, never both; the queues marked dead are out of the
\* active set, the queues that were put m are still in it, and m is the newest
\* message of the replay buffer.
C17_PurgeWithinBroadcast ==
    [][\A p \in Prods :
          BroadcastReturns(p) =>
              /\ \A s \in clients : (s \in dead[p]) # Enqueued(p, s)
              /\ \A s \in Subs : s \in dead[p] => s \notin clients'
              /\ \A s \in Subs : (s \in clients /\ Enqueued(p, s)) => s \in clients'
              /\ dead[p] \subseteq clients
              /\ messages' # <<>>
              /\ messages'[Len(messages')] = pmsg[p]
    ]_vars

\* a broadcast has returned after one put failed and one succeeded: the failed
\* queue is out of the active set, the other one is in it with the message
C17_Witness ==
    \E p \in Prods : \E s, t \in Subs :
        /\ ppc[p] = "idle"
        /\ lock = "free"
        /\ s \in dead[p]
        /\ s \notin clients
        /\ t \in clients
        /\ Count(pmsg[p], LivePart(t)) = 1
        /\ messages[Len(messages)] = pmsg[p]

(***************************************************************************)
(* Specification of the extraction of a place name: one worker whose       *)
(* geocoding request is answered with every combination of absent, empty   *)
(* and populated address fields, and an absent, empty or populated         *)
(* display_name.                                                           *)
(***************************************************************************)
PreferenceKeys == Range(Preference)

\* addresses: each key absent, present and empty, or present with a name (the
\* name of the key, so that the result tells which field was taken)
Addresses ==
    {[k \in D |-> IF k \in E THEN <<>> ELSE <<k>>] :
        D \in SUBSET PreferenceKeys, E \in SUBSET PreferenceKeys}

DisplayNames == {None, Some(<<>>), Some(<<"Mitte", ",", "Berlin">>)}

ExtractInputs ==
    {[raised |-> FALSE, data |-> [address |-> a, display_name |-> d]] :
        a \in Addresses, d \in DisplayNames}

ExtractBodies == {b \in PoolBodies : b.name = "Alex"}

NextExtract ==
    \/ \E w \in Workers : \E body \in ExtractBodies : Serving(BeginCreate(w, body))
    \/ \E w \in Workers : Serving(GncCheck(w))
    \/ \E w \in Workers : Serving(GncRequest(w, ExtractInputs))
    \/ \E w \in Workers : Serving(GncStore(w))
    \/ \E w \in Workers : Serving(CreateOpen(w, {"ok"}))
    \/ \E w \in Workers : Serving(CreateDump(w, {"ok"}))

SpecExtract == InitSeq /\ [][NextExtract]_vars

\* the preferred keys whose field is present and not empty
Populated(data) ==
    {i \in 1..Len(Preference) :
        /\ Preference[i] \in DOMAIN data.address
        /\ data.address[Preference[i]] # <<>>}

\* the name the stated policy picks: the first populated field, else the first
\* segment of display_name, else the sentinel
PolicyLocation(data) ==
    IF Populated(data) # {}
    THEN data.address[Preference[CHOOSE i \in Populated(data) :
                                    \A j \in Populated(data) : i <= j]]
    ELSE IF data.display_name # None /\ FirstSegment(data.display_name[1]) # <<>>
         THEN FirstSegment(data.display_name[1])
         ELSE UnknownLocation

\* C18 as claimed: the name get_nearest_city takes from a response is the one
\* the stated policy picks; a field that is present but empty is passed over.
C18_FirstPopulatedField ==
    \A w \in Workers :
        th[w].pc = "gnc_store" => th[w].loc[1] = PolicyLocation(th[w].call.data)

(***************************************************************************)
(* Properties of concurrent requests on the pin store and the cache.       *)
(***************************************************************************)
\* C19 as claimed: however deletes of the same id interleave, each of them
\* answers success (the one that removed the file) or 404 "Pin not found" (the
\* one that came too late), never a server error.
C19_ConcurrentDeletes ==
    \A w \in Workers :
        wres[w].kind = "delete" =>
            \/ wres[w].status = 200
            \/ wres[w].status = 404 /\ wres[w].msg = "Pin not found"

\* C20 as claimed: no step removes a key of location_cache or changes the
\* value stored for it, and a call that finds its key in the cache returns the
\* stored value and makes no outbound request.
C20_CacheWriteOnce ==
    [][/\ \A k \in DOMAIN location_cache :
             /\ k \in DOMAIN location_cache'
             /\ location_cache'[k] = location_cache[k]
       /\ \A w \in Workers :
             (GncCheck(w) /\ th[w].key \in DOMAIN location_cache) =>
                 /\ th'[w].pc = "c_open"
                 /\ th'[w].loc = Some(location_cache[th[w].key])
                 /\ lookups' = lookups
    ]_vars

====
